---- MODULE Spec2Model ----
(***************************************************************************)
(* Session authentication and request gating of the Pokedex application:   *)
(* the login issuers, the JWT codec as the code calls it, the direct       *)
(* verifiers, and the page / API / edge gates built on them.                *)
(*                                                                         *)
(* A token is modelled symbolically: its claims (username, exp) and the    *)
(* HMAC that was computed for it, kept as the key and the claims the MAC    *)
(* was computed over.  Changing the claims leaves the MAC fields alone, so  *)
(* a tampered token no longer matches its signature.                        *)
(***************************************************************************)
EXTENDS Integers, Sequences, FiniteSets, TLC

VARIABLES
    now,        \* the clock, seconds (Math.floor(Date.now() / 1000))
    ticks,      \* how many times the clock advanced
    jwtSecret,  \* process.env.JWT_SECRET, read at every call site
    nodeEnv,    \* process.env.NODE_ENV
    issued,     \* the tokens the login issuers minted, with the time of issue
    jar,        \* the client's auth_token cookie
    resp,       \* the request handled last and the response to it
    \* the browser: the route guard and the query cache
    pathname,     \* usePathname()
    userStatus,   \* the query ['userStatus'] of the cache
    catalogCache, \* the query keys of cached catalog data
    guardSeen,    \* the last run of the route guard's effect
    nav,          \* the navigation under way (router.replace / router.push)
    lastEvent,    \* what the browser did last
    userActions,  \* how many forms the user submitted
    \* the search input of the catalog page
    clock,            \* milliseconds since the component mounted
    searchValue,      \* the text of the input
    debounceTimerRef, \* debounceTimerRef.current: a timer id, or null
    timers,           \* the timeouts that are set and have not run
    calls,            \* the calls of onSearchChange, in order
    nextTimerId,      \* the id the next setTimeout returns
    mounted           \* the component is mounted

serverVars == <<now, ticks, jwtSecret, nodeEnv, issued, jar, resp>>
clientVars == <<pathname, userStatus, catalogCache, guardSeen, nav, lastEvent,
                userActions>>
searchVars == <<clock, searchValue, debounceTimerRef, timers, calls,
                nextTimerId, mounted>>
vars == <<serverVars, clientVars, searchVars>>

\* ------------------------------------------------------------------ bounds
MaxTicks == 3
MaxLogins == 1

\* --------------------------------------------------------------- constants
\* (variant: expiresIn '1h')
Lifetime_oneHour == 60 * 60

\* '24h' of setExpirationTime / expiresIn, in seconds
Lifetime == 24 * 60 * 60

\* process.env.JWT_SECRET is undefined
Unset == "<undefined>"
\* the value a deployment puts in JWT_SECRET; clients do not know it
ConfiguredSecret == "env-secret"
\* the literal the code falls back to; public with the source
DefaultSecret == "your-secret-key"
\* a key of the client's own choosing (the tests' 'wrong-secret')
WrongSecret == "wrong-secret"

SecretConfigs == {Unset, ConfiguredSecret}

\* the values of NODE_ENV the code tells apart: === 'production' or not
NodeEnvs == {"production", "development"}
ClientKeys == {DefaultSecret, WrongSecret}

\* a field that is absent from the JSON body
Missing == "<missing>"
Submitted == {"admin", "wrong", Missing}
Usernames == {"admin", "mallory"}

\* ------------------------------------------------------------------ tokens
Tok(kind, username, exp, sigKey, sigUser, sigExp) ==
    [kind |-> kind, username |-> username, exp |-> exp,
     sigKey |-> sigKey, sigUser |-> sigUser, sigExp |-> sigExp]

\* cookies.get('auth_token')?.value is undefined (or the empty string, which
\* the !token tests treat alike)
NoCookie == Tok("none", "", 0, "", "", 0)

\* a cookie value that is not three base64url parts ('invalid-token')
Garbage == Tok("garbage", "", 0, "", "", 0)

\* await cookies() rejects (the call is made outside a request scope): there
\* is no cookie value to read
ReadError == Tok("unreadable", "", 0, "", "", 0)

\* jwt.sign({username}, key, {expiresIn}) / new SignJWT({username})
\*   .setProtectedHeader({alg: 'HS256'}).setExpirationTime(..).sign(key)
Sign(username, exp, key) == Tok("jwt", username, exp, key, username, exp)

\* the claims of t rewritten, the signature bytes kept
WithUsername(t, u) == [t EXCEPT !.username = u]
WithExp(t, e) == [t EXCEPT !.exp = e]

SignatureMatches(t, key) ==
    /\ t.sigKey = key
    /\ t.sigUser = t.username
    /\ t.sigExp = t.exp

\* ------------------------------------------------------------------- codec
\* jwt.verify(token, secret) and jose's jwtVerify(token, key): the outcome is
\* "ok" or the class of the error thrown.  The signature is checked before
\* the exp claim; a token is expired from the second exp on.
jwtVerify(t, key, at) ==
    IF key = Unset THEN "nokey"
    ELSE IF t.kind # "jwt" THEN "malformed"
    ELSE IF ~SignatureMatches(t, key) THEN "invalid"
    ELSE IF at >= t.exp THEN "expired"
    ELSE "ok"

\* process.env.JWT_SECRET || 'your-secret-key'
SecretOrDefault(secret) == IF secret = Unset THEN DefaultSecret ELSE secret

\* ------------------------------------------------------------------- paths
\* request.nextUrl.pathname, as its segments
PathRoot == <<>>
PathLogin == <<"login">>
PathPokemonList == <<"api", "pokemon">>
PathPokemonDetail == <<"api", "pokemon", "25">>
PathAuthStatus == <<"api", "auth", "status">>
Paths == {PathRoot, PathLogin, PathPokemonList, PathPokemonDetail, PathAuthStatus}

\* pathname.startsWith('/api/pokemon')
StartsWithApiPokemon(path) ==
    /\ Len(path) >= 2
    /\ SubSeq(path, 1, 2) = PathPokemonList

\* --------------------------------------------------------------- responses
NoUser == "<none>"
NoBody == "<none>"
NoRedirect == "<none>"

\* the attributes of a Set-Cookie header.  maxAge is the Max-Age attribute in
\* seconds (-1: none); expires is "none", "epoch" (new Date(1)) or "maxAge"
\* (the time of the response plus Max-Age)
CookieOptions(httpOnly, secure, sameSite, maxAge, expires, path) ==
    [httpOnly |-> httpOnly, secure |-> secure, sameSite |-> sameSite,
     maxAge |-> maxAge, expires |-> expires, path |-> path]

NoOptions == CookieOptions(FALSE, FALSE, "none", -1, "none", "none")

\* response.cookies.set(name, value, options) of Next.js: the options as
\* given, maxAge in seconds
nextCookie(httpOnly, secure, sameSite, maxAge, path) ==
    CookieOptions(httpOnly, secure, sameSite, maxAge, "none", path)

\* (variant: maxAge is passed on as it was given)
expressCookie_maxAgeAsGiven(httpOnly, secure, sameSite, maxAgeMs) ==
    CookieOptions(httpOnly, secure, sameSite, maxAgeMs, "maxAge", "/")

\* res.cookie(name, value, options) of Express with a maxAge: maxAge is in
\* milliseconds, Max-Age is maxAge / 1000 and Expires follows; path is '/'
\* when the options name none
expressCookie(httpOnly, secure, sameSite, maxAgeMs) ==
    CookieOptions(httpOnly, secure, sameSite, maxAgeMs \div 1000, "maxAge", "/")

\* res.clearCookie(name, options) of Express: an empty value, expires
\* new Date(1), path '/'
expressClearCookie(httpOnly, secure, sameSite) ==
    CookieOptions(httpOnly, secure, sameSite, -1, "epoch", "/")

\* the Set-Cookie directive of a response for auth_token, if any
NoSetCookie ==
    [name |-> "none", op |-> "none", value |-> NoCookie, options |-> NoOptions]
SetAuthToken(t, options) ==
    [name |-> "auth_token", op |-> "set", value |-> t, options |-> options]
\* auth_token set to the empty string
ClearAuthToken(options) ==
    [name |-> "auth_token", op |-> "clear", value |-> NoCookie, options |-> options]

\* a header of an HTTP response, its name in lower case as the Headers object
\* of fetch reports it
Header(key, value) == [key |-> key, value |-> value]

\* what a fetch of the backend authority resolved with; json: the body parses
\* as JSON
Answer(status, body, user, json, headers) ==
    [status |-> status, body |-> body, user |-> user, json |-> json,
     headers |-> headers]

NoAnswer == Answer(0, NoBody, NoUser, FALSE, <<>>)

\* the request carried no parsed {username, password}
NoCreds == <<"<none>", "<none>">>

\* What a gate or handler did with a request.  status 0: no HTTP response was
\* produced by this code (the call returned a value, or passed the request on).
\* threw: an exception left the code.  fetchCalls, forwarded, upstream: the
\* outbound calls to the backend authority, the auth_token of the Cookie
\* header sent with them and what came back.  setCookies: the values of the
\* Set-Cookie headers of the response, in order.
Response(gate, path, cookie) ==
    [gate |-> gate, path |-> path, cookie |-> cookie,
     status |-> 0, body |-> NoBody, redirect |-> NoRedirect,
     passed |-> FALSE, user |-> NoUser, codecCalls |-> 0, outcome |-> "none",
     handlerRan |-> FALSE, serviceCalled |-> FALSE, setCookie |-> NoSetCookie,
     creds |-> NoCreds,
     threw |-> FALSE, fetchCalls |-> 0, forwarded |-> NoCookie,
     upstream |-> NoAnswer, setCookies |-> <<>>]

NoRequest == Response("none", PathRoot, NoCookie)

Json(r, status, body) == [r EXCEPT !.status = status, !.body = body]

\* what the caller of a gate can see of its answer
External(r) == [status |-> r.status, body |-> r.body, redirect |-> r.redirect,
                passed |-> r.passed, user |-> r.user, setCookie |-> r.setCookie]

\* ------------------------------------------------------- direct verifiers
\* (variant: await cookies() is outside the try block)
verifyAuth_cookiesOutsideTry(cookie, secret, at) ==
    LET r == Response("verifyAuth", PathRoot, cookie) IN
    IF cookie = ReadError THEN [r EXCEPT !.threw = TRUE, !.outcome = "cookies"]
    ELSE IF cookie = NoCookie THEN r
    ELSE LET v == jwtVerify(cookie, SecretOrDefault(secret), at) IN
         IF v = "ok"
         THEN [r EXCEPT !.passed = TRUE, !.user = cookie.username,
                        !.codecCalls = 1, !.outcome = v]
         ELSE [r EXCEPT !.codecCalls = 1, !.outcome = v]

\* (variant: jwtVerify runs before the !token test)
verifyAuth_verifiesFirst(cookie, secret, at) ==
    LET r == Response("verifyAuth", PathRoot, cookie)
        v == jwtVerify(cookie, SecretOrDefault(secret), at) IN
    IF v = "ok"
    THEN [r EXCEPT !.passed = TRUE, !.user = cookie.username,
                   !.codecCalls = 1, !.outcome = v]
    ELSE [r EXCEPT !.codecCalls = 1, !.outcome = v]

\* (variant: the server keeps the token of the current session and accepts
\* no other)
verifyAuth_currentSessionOnly(cookie, secret, at) ==
    LET r == Response("verifyAuth", PathRoot, cookie) IN
    IF cookie = ReadError THEN [r EXCEPT !.outcome = "cookies"]
    ELSE IF cookie = NoCookie THEN r
    ELSE LET v == jwtVerify(cookie, SecretOrDefault(secret), at) IN
         IF v = "ok" /\ cookie = jar
         THEN [r EXCEPT !.passed = TRUE, !.user = cookie.username,
                        !.codecCalls = 1, !.outcome = v]
         ELSE [r EXCEPT !.codecCalls = 1, !.outcome = v]

\* verifyAuth (lib/auth.ts): the user, or null; the try block holds the
\* await cookies() too
verifyAuth(cookie, secret, at) ==
    LET r == Response("verifyAuth", PathRoot, cookie) IN
    IF cookie = ReadError THEN [r EXCEPT !.outcome = "cookies"]
    ELSE IF cookie = NoCookie THEN r
    ELSE LET v == jwtVerify(cookie, SecretOrDefault(secret), at) IN
         IF v = "ok"
         THEN [r EXCEPT !.passed = TRUE, !.user = cookie.username,
                        !.codecCalls = 1, !.outcome = v]
         ELSE [r EXCEPT !.codecCalls = 1, !.outcome = v]

\* verifyAuthFromRequest (lib/auth.ts): true or false
verifyAuthFromRequest(cookie, secret, at) ==
    LET r == Response("verifyAuthFromRequest", PathRoot, cookie) IN
    IF cookie = NoCookie THEN r
    ELSE LET v == jwtVerify(cookie, SecretOrDefault(secret), at) IN
         IF v = "ok"
         THEN [r EXCEPT !.passed = TRUE, !.codecCalls = 1, !.outcome = v]
         ELSE [r EXCEPT !.codecCalls = 1, !.outcome = v]

\* ------------------------------------------------------------------- gates
\* requireAuth (lib/auth.ts): redirect('/login') when verifyAuth gave null
\* (an exception of verifyAuth would leave requireAuth too: it has no try)
requireAuth(cookie, secret, at) ==
    LET v == verifyAuth(cookie, secret, at)
        r == [v EXCEPT !.gate = "requireAuth"] IN
    IF v.threw THEN r
    ELSE IF ~v.passed THEN [r EXCEPT !.redirect = "/login"] ELSE r

\* requireApiAuth (lib/auth.ts): a 401 response, or null
requireApiAuth(cookie, secret, at) ==
    LET v == verifyAuthFromRequest(cookie, secret, at)
        r == [v EXCEPT !.gate = "requireApiAuth"] IN
    IF ~v.passed THEN Json(r, 401, "Unauthorized: No valid token provided") ELSE r

\* (variant: the catch answers like the missing-token branch)
protect_401OnBadToken(cookie, secret, at) ==
    LET r == Response("protect", PathRoot, cookie) IN
    IF cookie = NoCookie
    THEN Json(r, 401, "Unauthorized: No token provided")
    ELSE LET v == jwtVerify(cookie, secret, at) IN
         IF v = "ok"
         THEN [r EXCEPT !.passed = TRUE, !.user = cookie.username,
                        !.codecCalls = 1, !.outcome = v]
         ELSE Json([r EXCEPT !.codecCalls = 1, !.outcome = v],
                   401, "Unauthorized: No token provided")

\* (variant: a logout revokes the tokens issued before it)
protect_revokedByLogout(cookie, secret, at) ==
    LET r == Response("protect", PathRoot, cookie) IN
    IF cookie = NoCookie
    THEN Json(r, 401, "Unauthorized: No token provided")
    ELSE LET v == jwtVerify(cookie, secret, at) IN
         IF v = "ok" /\ ~(jar = NoCookie /\ cookie \in {i.tok : i \in issued})
         THEN [r EXCEPT !.passed = TRUE, !.user = cookie.username,
                        !.codecCalls = 1, !.outcome = v]
         ELSE Json([r EXCEPT !.codecCalls = 1, !.outcome = v],
                   403, "Forbidden: Invalid or expired token")

\* (variant: jwt.decode in place of jwt.verify: the signature is not checked)
protect_decodesOnly(cookie, secret, at) ==
    LET r == Response("protect", PathRoot, cookie) IN
    IF cookie = NoCookie
    THEN Json(r, 401, "Unauthorized: No token provided")
    ELSE IF cookie.kind = "jwt" /\ at < cookie.exp
    THEN [r EXCEPT !.passed = TRUE, !.user = cookie.username,
                   !.codecCalls = 1, !.outcome = "ok"]
    ELSE Json([r EXCEPT !.codecCalls = 1, !.outcome = "invalid"],
              403, "Forbidden: Invalid or expired token")

\* protect (backend/middleware/auth.ts): jwt.verify(token, JWT_SECRET!)
protect(cookie, secret, at) ==
    LET r == Response("protect", PathRoot, cookie) IN
    IF cookie = NoCookie
    THEN Json(r, 401, "Unauthorized: No token provided")
    ELSE LET v == jwtVerify(cookie, secret, at) IN
         IF v = "ok"
         THEN [r EXCEPT !.passed = TRUE, !.user = cookie.username,
                        !.codecCalls = 1, !.outcome = v]
         ELSE Json([r EXCEPT !.codecCalls = 1, !.outcome = v],
                   403, "Forbidden: Invalid or expired token")

\* (variant: jwt.verify runs before the !token test)
apiMiddleware_verifiesFirst(path, cookie, secret, at) ==
    LET r == Response("apiMiddleware", path, cookie) IN
    IF StartsWithApiPokemon(path)
    THEN LET v == jwtVerify(cookie, SecretOrDefault(secret), at) IN
         IF v = "ok"
         THEN [r EXCEPT !.passed = TRUE, !.codecCalls = 1, !.outcome = v]
         ELSE IF cookie = NoCookie
         THEN Json([r EXCEPT !.codecCalls = 1, !.outcome = v],
                   401, "Unauthorized: No token provided")
         ELSE Json([r EXCEPT !.codecCalls = 1, !.outcome = v],
                   403, "Forbidden: Invalid or expired token")
    ELSE [r EXCEPT !.passed = TRUE]

\* (variant: the test is pathname.startsWith('/api'))
apiMiddleware_guardsApi(path, cookie, secret, at) ==
    LET r == Response("apiMiddleware", path, cookie) IN
    IF Len(path) >= 1 /\ path[1] = "api"
    THEN IF cookie = NoCookie
         THEN Json(r, 401, "Unauthorized: No token provided")
         ELSE LET v == jwtVerify(cookie, SecretOrDefault(secret), at) IN
              IF v = "ok"
              THEN [r EXCEPT !.passed = TRUE, !.codecCalls = 1, !.outcome = v]
              ELSE Json([r EXCEPT !.codecCalls = 1, !.outcome = v],
                        403, "Forbidden: Invalid or expired token")
    ELSE [r EXCEPT !.passed = TRUE]

\* middleware (the API variant): guards the paths under /api/pokemon
apiMiddleware(path, cookie, secret, at) ==
    LET r == Response("apiMiddleware", path, cookie) IN
    IF StartsWithApiPokemon(path)
    THEN IF cookie = NoCookie
         THEN Json(r, 401, "Unauthorized: No token provided")
         ELSE LET v == jwtVerify(cookie, SecretOrDefault(secret), at) IN
              IF v = "ok"
              THEN [r EXCEPT !.passed = TRUE, !.codecCalls = 1, !.outcome = v]
              ELSE Json([r EXCEPT !.codecCalls = 1, !.outcome = v],
                        403, "Forbidden: Invalid or expired token")
    ELSE [r EXCEPT !.passed = TRUE]

\* (variant: the catch tells an expired token from the other failures)
pageMiddleware_tellsExpired(path, cookie, secret, at) ==
    LET r == Response("pageMiddleware", path, cookie) IN
    IF path # PathRoot THEN [r EXCEPT !.passed = TRUE]
    ELSE IF cookie = NoCookie THEN [r EXCEPT !.redirect = "/login?from=/"]
    ELSE IF secret = Unset THEN [r EXCEPT !.redirect = "/login", !.outcome = "nokey"]
    ELSE LET v == jwtVerify(cookie, secret, at) IN
         IF v = "ok"
         THEN [r EXCEPT !.passed = TRUE, !.codecCalls = 1, !.outcome = v]
         ELSE [r EXCEPT !.codecCalls = 1, !.outcome = v,
                        !.redirect = IF v = "expired" THEN "/login?expired=1"
                                     ELSE "/login?from=/"]

\* middleware (src/middleware.ts, the page variant): guards '/'
pageMiddleware(path, cookie, secret, at) ==
    LET r == Response("pageMiddleware", path, cookie) IN
    IF path # PathRoot THEN [r EXCEPT !.passed = TRUE]
    ELSE IF cookie = NoCookie THEN [r EXCEPT !.redirect = "/login?from=/"]
    ELSE IF secret = Unset THEN [r EXCEPT !.redirect = "/login", !.outcome = "nokey"]
    ELSE LET v == jwtVerify(cookie, secret, at) IN
         IF v = "ok"
         THEN [r EXCEPT !.passed = TRUE, !.codecCalls = 1, !.outcome = v]
         ELSE [r EXCEPT !.codecCalls = 1, !.outcome = v,
                        !.redirect = "/login?from=/"]

\* ----------------------------------------------------- what a client sends
IssuedTokens == {i.tok : i \in issued}

\* an exp no run of the model reaches
FarFuture == 365 * Lifetime

\* tokens a client can make without the configured secret: signed with a key
\* it knows, or an issued token with a claim rewritten and the signature kept
Forged == {Sign(u, FarFuture, k) : u \in Usernames, k \in ClientKeys}
            \cup {Sign("admin", 0, WrongSecret)}
Tampered == {WithUsername(t, "mallory") : t \in IssuedTokens}
              \cup {WithExp(t, FarFuture) : t \in IssuedTokens}

\* every value the auth_token cookie of a request can have
Cookies == {NoCookie, Garbage} \cup IssuedTokens \cup Tampered \cup Forged

\* ----------------------------------------------------------------- issuers
\* (variant: || for &&)
CredentialsMatch_either(username, password) ==
    username = "admin" \/ password = "admin"

\* the username === 'admin' && password === 'admin' of both login handlers
CredentialsMatch(username, password) ==
    username = "admin" /\ password = "admin"

\* the options of response.cookies.set('auth_token', token, {..}) in the
\* Next.js login route
nextLoginCookie(env) ==
    nextCookie(TRUE, env = "production",
               IF env = "production" THEN "strict" ELSE "lax",
               24 * 60 * 60, "/")

\* the options of res.cookie('auth_token', token, {..}) in the backend login
backendLoginCookie(env) ==
    expressCookie(TRUE, env = "production", "strict", 24 * 60 * 60 * 1000)

\* (variant: the issuer ignores JWT_SECRET)
nextLogin_defaultKeyOnly(parses, username, password, secret, at, env) ==
    LET r == Response("nextLogin", <<"api", "auth", "login">>, NoCookie)
        c == [r EXCEPT !.creds = <<username, password>>] IN
    IF ~parses THEN Json(r, 500, "Internal server error")
    ELSE IF CredentialsMatch(username, password)
    THEN [Json(c, 200, "Login successful") EXCEPT
            !.passed = TRUE,
            !.setCookie = SetAuthToken(Sign("admin", at + Lifetime, DefaultSecret),
                                       nextLoginCookie(env))]
    ELSE Json(c, 401, "Invalid credentials")

\* (variant: a refused login also expires the cookie the client holds)
nextLogin_clearsOnFailure(parses, username, password, secret, at, env) ==
    LET r == Response("nextLogin", <<"api", "auth", "login">>, NoCookie)
        c == [r EXCEPT !.creds = <<username, password>>] IN
    IF ~parses THEN Json(r, 500, "Internal server error")
    ELSE IF CredentialsMatch(username, password)
    THEN [Json(c, 200, "Login successful") EXCEPT
            !.passed = TRUE,
            !.setCookie = SetAuthToken(
                Sign("admin", at + Lifetime, SecretOrDefault(secret)),
                nextLoginCookie(env))]
    ELSE [Json(c, 401, "Invalid credentials") EXCEPT
            !.setCookie = ClearAuthToken(
                nextCookie(TRUE, env = "production", "strict", 0, "/"))]

\* POST /api/auth/login (Next.js route): signs with JWT_SECRET || default
\* (request.json() throws on a body that is not JSON: the catch answers 500)
nextLogin(parses, username, password, secret, at, env) ==
    LET r == Response("nextLogin", <<"api", "auth", "login">>, NoCookie)
        c == [r EXCEPT !.creds = <<username, password>>] IN
    IF ~parses THEN Json(r, 500, "Internal server error")
    ELSE IF CredentialsMatch(username, password)
    THEN [Json(c, 200, "Login successful") EXCEPT
            !.passed = TRUE,
            !.setCookie = SetAuthToken(
                Sign("admin", at + Lifetime, SecretOrDefault(secret)),
                nextLoginCookie(env))]
    ELSE Json(c, 401, "Invalid credentials")

\* router.post('/login') of the backend: jwt.sign(.., JWT_SECRET!, ..) throws
\* without a key and Express answers 500
backendLogin(username, password, secret, at, env) ==
    LET r == [Response("backendLogin", <<"api", "login">>, NoCookie) EXCEPT
                 !.creds = <<username, password>>] IN
    IF CredentialsMatch(username, password)
    THEN IF secret = Unset
         THEN Json(r, 500, "Internal Server Error")
         ELSE [Json(r, 200, "Login successful") EXCEPT
                 !.passed = TRUE,
                 !.setCookie = SetAuthToken(Sign("admin", at + Lifetime, secret),
                                            backendLoginCookie(env))]
    ELSE Json(r, 401, "Invalid credentials")

\* (variant: the logout answers 200 and leaves the cookie alone)
nextLogout_keepsCookie(cookie, env) ==
    Json(Response("nextLogout", <<"api", "auth", "logout">>, cookie),
         200, "Logout successful")

\* POST /api/auth/logout (Next.js route): the handler takes no request;
\* response.cookies.set('auth_token', '', {.., maxAge: 0, ..})
nextLogout(cookie, env) ==
    [Json(Response("nextLogout", <<"api", "auth", "logout">>, cookie),
          200, "Logout successful") EXCEPT
        !.setCookie = ClearAuthToken(
            nextCookie(TRUE, env = "production", "strict", 0, "/"))]

\* router.post('/logout') of the backend: res.clearCookie('auth_token', {..})
backendLogout(cookie, env) ==
    [Json(Response("backendLogout", <<"api", "logout">>, cookie),
          200, "Logout successful") EXCEPT
        !.setCookie = ClearAuthToken(
            expressClearCookie(TRUE, env = "production", "strict"))]

\* ---------------------------------------------------------------- handlers
ListInputs == {"ok", "badParam", "upstreamError"}
DetailInputs == {"ok", "notFound", "upstreamError"}

\* GET /api/pokemon (Next.js route, and the backend's router.get('/pokemon')
\* after protect): 400 on a bad limit/offset, else fetchPokemonList
pokemonListGET(r, input) ==
    LET h == [r EXCEPT !.handlerRan = TRUE] IN
    CASE input = "badParam" ->
            Json(h, 400, "Invalid limit parameter. Must be a positive number.")
      [] input = "upstreamError" ->
            Json([h EXCEPT !.serviceCalled = TRUE], 500, "Failed to fetch Pokemon list")
      [] OTHER ->
            Json([h EXCEPT !.serviceCalled = TRUE], 200, "pokemonData")

\* GET /api/pokemon/[id]: fetchPokemonDetail
pokemonDetailGET(r, input) ==
    LET h == [r EXCEPT !.handlerRan = TRUE, !.serviceCalled = TRUE] IN
    CASE input = "notFound" -> Json(h, 404, "Pokemon not found")
      [] input = "upstreamError" -> Json(h, 500, "Failed to fetch Pokemon detail")
      [] OTHER -> Json(h, 200, "pokemonData")

\* (variant: the handler leaves req.user out of the body)
statusGET_withoutUser(r) ==
    Json([r EXCEPT !.handlerRan = TRUE, !.user = NoUser], 200, "success: true")

\* router.get('/status', protect, ..): {success: true, user: req.user}
statusGET(r) == Json([r EXCEPT !.handlerRan = TRUE], 200, "success: true")

\* GET /api/status of the backend: protect, then the handler
backendStatus(cookie, secret, at) ==
    LET g == [protect(cookie, secret, at) EXCEPT
                 !.gate = "backendStatus", !.path = <<"api", "status">>] IN
    IF g.passed THEN statusGET(g) ELSE g

\* GET /api/pokemon of the backend: protect, then the handler
backendPokemon(cookie, secret, at, input) ==
    LET g == [protect(cookie, secret, at) EXCEPT
                 !.gate = "backendPokemon", !.path = PathPokemonList] IN
    IF g.passed THEN pokemonListGET(g, input) ELSE g

\* (variant: the page does not wait for requireAuth)
PokemonDetailPage_withoutAwait(cookie, secret, at) ==
    [requireAuth(cookie, secret, at) EXCEPT
        !.gate = "detailPage", !.path = <<"pokemon", "25">>,
        !.handlerRan = TRUE, !.body = "PokemonDetailScreen"]

\* PokemonDetailPage (a server component): await requireAuth() is its first
\* statement; redirect() does not return, so the page renders only when
\* requireAuth returned
PokemonDetailPage(cookie, secret, at) ==
    LET g == [requireAuth(cookie, secret, at) EXCEPT
                 !.gate = "detailPage", !.path = <<"pokemon", "25">>] IN
    IF g.threw \/ g.redirect # NoRedirect THEN g
    ELSE [g EXCEPT !.handlerRan = TRUE, !.body = "PokemonDetailScreen"]

\* ------------------------------------------------- the backend as authority
\* the network between the Next.js server and the backend: fetch resolves,
\* or rejects (connection refused, timeout)
NetOutcomes == {"ok", "unreachable"}

\* a header value that is no cookie
ContentTypeJson ==
    [name |-> "application/json", op |-> "header", value |-> NoCookie,
     options |-> NoOptions]

\* a cookie of an intermediary in front of the backend, set next to auth_token
RouteCookie ==
    [name |-> "route", op |-> "set", value |-> Garbage,
     options |-> CookieOptions(TRUE, FALSE, "lax", -1, "none", "/")]

\* the Set-Cookie headers a response gets on top of the backend's own
ExtraSetCookies == {<<>>, <<Header("set-cookie", RouteCookie)>>}

\* the response r of the backend as fetch sees it: Express's own 500 page is
\* not JSON; res.cookie / res.clearCookie add one Set-Cookie header
BackendAnswer(r, extra) ==
    Answer(r.status, r.body, r.user, r.body # "Internal Server Error",
           <<Header("content-type", ContentTypeJson)>>
           \o (IF r.setCookie.op = "none" THEN <<>>
               ELSE <<Header("set-cookie", r.setCookie)>>)
           \o extra)

\* an authority that answers 200 {success: false} (the mock of the tests of
\* the delegating verifier)
SuccessFalseAnswer ==
    Answer(200, "success: false", NoUser, TRUE,
           <<Header("content-type", ContentTypeJson)>>)

\* ----------------------------------------------------------------- proxies
\* response.headers.forEach((value, key) => { if (key.toLowerCase() ===
\* 'set-cookie') nextResponse.headers.append('set-cookie', value) }): out is
\* the Set-Cookie values of nextResponse so far.  Headers reports every
\* Set-Cookie header as an entry of its own.
RECURSIVE forEachSetCookie(_, _)
forEachSetCookie(headers, out) ==
    IF headers = <<>> THEN out
    ELSE forEachSetCookie(Tail(headers),
                          IF Head(headers).key = "set-cookie"
                          THEN Append(out, Head(headers).value)
                          ELSE out)

\* the directive for auth_token among the Set-Cookie values, the last one if
\* there are several
RECURSIVE AuthTokenDirective(_)
AuthTokenDirective(setCookies) ==
    IF setCookies = <<>> THEN NoSetCookie
    ELSE LET last == setCookies[Len(setCookies)] IN
         IF last.name = "auth_token" THEN last
         ELSE AuthTokenDirective(SubSeq(setCookies, 1, Len(setCookies) - 1))

\* (variant: only the first Set-Cookie header is copied)
relay_firstSetCookieOnly(r, net, answer) ==
    LET c == [r EXCEPT !.fetchCalls = 1, !.forwarded = r.cookie] IN
    IF net = "unreachable" THEN Json(c, 500, "Internal server error")
    ELSE IF ~answer.json
    THEN Json([c EXCEPT !.upstream = answer], 500, "Internal server error")
    ELSE LET all == forEachSetCookie(answer.headers, <<>>)
             sc == IF all = <<>> THEN <<>> ELSE <<Head(all)>> IN
         [c EXCEPT !.upstream = answer, !.status = answer.status,
                   !.body = answer.body, !.user = answer.user,
                   !.setCookies = sc, !.setCookie = AuthTokenDirective(sc)]

\* (variant: a failed fetch is tried once more before the 500)
relay_retriesOnce(r, net, answer) ==
    LET c == [r EXCEPT !.fetchCalls = 1, !.forwarded = r.cookie] IN
    IF net = "unreachable"
    THEN Json([c EXCEPT !.fetchCalls = 2], 500, "Internal server error")
    ELSE IF ~answer.json
    THEN Json([c EXCEPT !.upstream = answer], 500, "Internal server error")
    ELSE LET sc == forEachSetCookie(answer.headers, <<>>) IN
         [c EXCEPT !.upstream = answer, !.status = answer.status,
                   !.body = answer.body, !.user = answer.user,
                   !.setCookies = sc, !.setCookie = AuthTokenDirective(sc)]

\* the body the proxy routes share: one fetch of the backend with the Cookie
\* header of the request, response.json(), NextResponse.json(data, {status})
\* with the Set-Cookie headers copied; the catch answers 500
relay(r, net, answer) ==
    LET c == [r EXCEPT !.fetchCalls = 1, !.forwarded = r.cookie] IN
    IF net = "unreachable" THEN Json(c, 500, "Internal server error")
    ELSE IF ~answer.json
    THEN Json([c EXCEPT !.upstream = answer], 500, "Internal server error")
    ELSE LET sc == forEachSetCookie(answer.headers, <<>>) IN
         [c EXCEPT !.upstream = answer, !.status = answer.status,
                   !.body = answer.body, !.user = answer.user,
                   !.setCookies = sc, !.setCookie = AuthTokenDirective(sc)]

\* POST /api/auth/login (proxy route): request.json() first, inside the try
loginProxy(parses, username, password, cookie, net, answer) ==
    LET r == Response("loginProxy", <<"api", "auth", "login">>, cookie) IN
    IF ~parses THEN Json(r, 500, "Internal server error")
    ELSE relay([r EXCEPT !.creds = <<username, password>>], net, answer)

\* POST /api/auth/logout (proxy route)
logoutProxy(cookie, net, answer) ==
    relay(Response("logoutProxy", <<"api", "auth", "logout">>, cookie), net, answer)

\* GET /api/auth/status (proxy route)
statusProxy(cookie, net, answer) ==
    relay(Response("statusProxy", PathAuthStatus, cookie), net, answer)

\* GET /api/pokemon (proxy route)
pokemonProxy(cookie, net, answer) ==
    relay(Response("pokemonProxy", PathPokemonList, cookie), net, answer)

\* ------------------------------------------------------ delegating verifier
\* (variant: an unreachable authority makes the verifier check the token
\* itself)
delegatingVerifyAuth_localFallback(cookie, net, answer, secret, at) ==
    LET r == Response("delegatingVerifyAuth", PathRoot, cookie)
        c == [r EXCEPT !.fetchCalls = 1, !.forwarded = cookie] IN
    IF cookie = NoCookie THEN r
    ELSE IF net = "unreachable"
    THEN [verifyAuth(cookie, secret, at) EXCEPT
             !.gate = "delegatingVerifyAuth", !.fetchCalls = 1,
             !.forwarded = cookie]
    ELSE IF /\ answer.status \in 200..299
            /\ answer.json
            /\ answer.body = "success: true"
            /\ answer.user # NoUser
    THEN [c EXCEPT !.upstream = answer, !.passed = TRUE, !.user = answer.user,
                   !.outcome = "ok"]
    ELSE [c EXCEPT !.upstream = answer, !.outcome = "refused"]

\* verifyAuth of the split deployment: no cookie, null without a fetch; else
\* one GET of BACKEND_URL/api/status with 'Cookie: auth_token=<value>'; the
\* user of an ok response with success and a user; null for any other
\* response and for a fetch that rejects
delegatingVerifyAuth(cookie, net, answer, secret, at) ==
    LET r == Response("delegatingVerifyAuth", PathRoot, cookie)
        c == [r EXCEPT !.fetchCalls = 1, !.forwarded = cookie] IN
    IF cookie = NoCookie THEN r
    ELSE IF net = "unreachable" THEN [c EXCEPT !.outcome = "network"]
    ELSE IF /\ answer.status \in 200..299
            /\ answer.json
            /\ answer.body = "success: true"
            /\ answer.user # NoUser
    THEN [c EXCEPT !.upstream = answer, !.passed = TRUE, !.user = answer.user,
                   !.outcome = "ok"]
    ELSE [c EXCEPT !.upstream = answer, !.outcome = "refused"]

\* requireAuth of the split deployment: redirect('/login') on null
delegatingRequireAuth(cookie, net, answer, secret, at) ==
    LET v == delegatingVerifyAuth(cookie, net, answer, secret, at)
        r == [v EXCEPT !.gate = "delegatingRequireAuth"] IN
    IF ~v.passed THEN [r EXCEPT !.redirect = "/login"] ELSE r

\* ---------------------------------------------------- the browser at rest
\* no query ['userStatus'] in the cache
NoQuery == [data |-> "none", error |-> FALSE, fetching |-> FALSE,
            invalidated |-> FALSE, sent |-> NoCookie]

\* the route guard's effect has not run
NeverRan == [ran |-> FALSE, ready |-> FALSE, auth |-> FALSE, path |-> "none",
             redirect |-> "none"]

NoNav == [target |-> "none", by |-> "none"]

\* no page is open
ClientIdle ==
    /\ pathname = "none"
    /\ userStatus = NoQuery
    /\ catalogCache = {}
    /\ guardSeen = NeverRan
    /\ nav = NoNav
    /\ lastEvent = "none"
    /\ userActions = 0

\* debounceTimerRef.current === null
NullRef == 0

\* SearchAndControls as it mounts with initialSearch = ''
SearchIdle ==
    /\ clock = 0
    /\ searchValue = ""
    /\ debounceTimerRef = NullRef
    /\ timers = {}
    /\ calls = <<>>
    /\ nextTimerId = 1
    /\ mounted = TRUE

\* ------------------------------------------------------------------ actions
\* the deployment that verifies tokens itself, run in production: NODE_ENV
\* is read by the issuers and the logouts only, and both of its values are
\* covered by SplitInit
Init ==
    /\ now = 0
    /\ ticks = 0
    /\ jwtSecret \in SecretConfigs
    /\ nodeEnv = "production"
    /\ issued = {}
    /\ jar = NoCookie
    /\ resp = NoRequest
    /\ ClientIdle
    /\ SearchIdle

\* time passes between requests: a second, or a second short of a token's
\* lifetime
Tick ==
    /\ resp = NoRequest
    /\ ticks < MaxTicks
    /\ \E d \in {1, Lifetime - 1} : now' = now + d
    /\ ticks' = ticks + 1
    /\ UNCHANGED <<jwtSecret, nodeEnv, issued, jar, resp>>
    /\ UNCHANGED <<clientVars, searchVars>>

\* the server answers a request with r; a token it minted is on record
Deliver(r) ==
    /\ resp = NoRequest
    /\ resp' = r
    /\ issued' = IF r.setCookie.op = "set"
                 THEN issued \cup {[tok |-> r.setCookie.value, at |-> now]}
                 ELSE issued
    /\ Cardinality(issued') <= MaxLogins
    /\ UNCHANGED <<now, ticks, jwtSecret, nodeEnv, jar>>
    /\ UNCHANGED <<clientVars, searchVars>>

\* the client takes the response: its cookie jar follows Set-Cookie
Receive ==
    /\ resp # NoRequest
    /\ jar' = CASE resp.setCookie.op = "set" -> resp.setCookie.value
                [] resp.setCookie.op = "clear" -> NoCookie
                [] OTHER -> jar
    /\ resp' = NoRequest
    /\ UNCHANGED <<now, ticks, jwtSecret, nodeEnv, issued>>
    /\ UNCHANGED <<clientVars, searchVars>>

NextLogin ==
    \E parses \in BOOLEAN, u \in Submitted, p \in Submitted :
        Deliver(nextLogin(parses, u, p, jwtSecret, now, nodeEnv))

BackendLogin ==
    \E u \in Submitted, p \in Submitted :
        Deliver(backendLogin(u, p, jwtSecret, now, nodeEnv))

\* what a logout request carries: the client's cookie (a valid token after a
\* login), a value that is no token, or nothing
LogoutCookies == {jar, Garbage, NoCookie}

NextLogout == \E cookie \in LogoutCookies : Deliver(nextLogout(cookie, nodeEnv))

BackendLogout ==
    \E cookie \in LogoutCookies : Deliver(backendLogout(cookie, nodeEnv))

\* a request for a path of the Next.js app that has the API middleware: the
\* middleware first, the route handler when it passed the request on
ApiRequest ==
    \E path \in Paths, cookie \in Cookies, li \in ListInputs, di \in DetailInputs :
        LET m == apiMiddleware(path, cookie, jwtSecret, now) IN
        Deliver(IF ~m.passed THEN m
                ELSE IF path = PathPokemonList THEN pokemonListGET(m, li)
                ELSE IF path = PathPokemonDetail THEN pokemonDetailGET(m, di)
                ELSE m)

\* GET /api/pokemon of the backend
BackendPokemonRequest ==
    \E cookie \in Cookies, li \in ListInputs :
        Deliver(backendPokemon(cookie, jwtSecret, now, li))

\* GET /api/status of the backend
BackendStatusRequest ==
    \E cookie \in Cookies : Deliver(backendStatus(cookie, jwtSecret, now))

\* protect in front of any other handler (the unit under test of auth.test.ts)
ProtectCall ==
    \E cookie \in Cookies : Deliver(protect(cookie, jwtSecret, now))

\* a navigation that runs the page middleware
PageRequest ==
    \E path \in Paths, cookie \in Cookies :
        Deliver(pageMiddleware(path, cookie, jwtSecret, now))

VerifyAuthCall ==
    \E cookie \in Cookies \cup {ReadError} :
        Deliver(verifyAuth(cookie, jwtSecret, now))

VerifyAuthFromRequestCall ==
    \E cookie \in Cookies : Deliver(verifyAuthFromRequest(cookie, jwtSecret, now))

RequireAuthCall ==
    \E cookie \in Cookies \cup {ReadError} :
        Deliver(requireAuth(cookie, jwtSecret, now))

\* a navigation to /pokemon/25: the server component that starts with
\* await requireAuth()
DetailPageRequest ==
    \E cookie \in Cookies \cup {ReadError} :
        Deliver(PokemonDetailPage(cookie, jwtSecret, now))

\* a route handler that starts with requireApiAuth(request)
RequireApiAuthCall ==
    \E cookie \in Cookies : Deliver(requireApiAuth(cookie, jwtSecret, now))

Next ==
    \/ Tick
    \/ Receive
    \/ NextLogin
    \/ BackendLogin
    \/ NextLogout
    \/ BackendLogout
    \/ ApiRequest
    \/ BackendPokemonRequest
    \/ BackendStatusRequest
    \/ ProtectCall
    \/ PageRequest
    \/ VerifyAuthCall
    \/ VerifyAuthFromRequestCall
    \/ RequireAuthCall
    \/ DetailPageRequest
    \/ RequireApiAuthCall

Spec == Init /\ [][Next]_vars

\* ---------------------------------------------------- the split deployment
\* the Next.js server in front of the backend authority: its proxy routes
\* and its delegating verifier, in either NODE_ENV
SplitInit ==
    /\ now = 0
    /\ ticks = 0
    /\ jwtSecret \in SecretConfigs
    /\ nodeEnv \in NodeEnvs
    /\ issued = {}
    /\ jar = NoCookie
    /\ resp = NoRequest
    /\ ClientIdle
    /\ SearchIdle

\* a day passes between requests: a token issued before is expired after
DayPasses ==
    /\ resp = NoRequest
    /\ ticks < MaxTicks
    /\ now' = now + Lifetime
    /\ ticks' = ticks + 1
    /\ UNCHANGED <<jwtSecret, nodeEnv, issued, jar, resp>>
    /\ UNCHANGED <<clientVars, searchVars>>

\* the login form posts to the proxy with the cookie the client has
LoginProxyRequest ==
    \E parses \in BOOLEAN, u \in Submitted, p \in Submitted,
       net \in NetOutcomes, extra \in ExtraSetCookies :
        Deliver(loginProxy(parses, u, p, jar, net,
                    BackendAnswer(backendLogin(u, p, jwtSecret, now, nodeEnv),
                                  extra)))

LogoutProxyRequest ==
    \E cookie \in LogoutCookies, net \in NetOutcomes, extra \in ExtraSetCookies :
        Deliver(logoutProxy(cookie, net,
                    BackendAnswer(backendLogout(cookie, nodeEnv), extra)))

StatusProxyRequest ==
    \E cookie \in Cookies, net \in NetOutcomes, extra \in ExtraSetCookies :
        Deliver(statusProxy(cookie, net,
                    BackendAnswer(backendStatus(cookie, jwtSecret, now), extra)))

PokemonProxyRequest ==
    \E cookie \in Cookies, net \in NetOutcomes, li \in ListInputs :
        Deliver(pokemonProxy(cookie, net,
                    BackendAnswer(backendPokemon(cookie, jwtSecret, now, li),
                                  <<>>)))

\* what the authority a delegating verifier asks can answer for a cookie: the
\* backend's /api/status, or 200 {success: false}
AuthorityAnswers(cookie) ==
    {BackendAnswer(backendStatus(cookie, jwtSecret, now), <<>>),
     SuccessFalseAnswer}

DelegatingVerifyAuthCall ==
    \E cookie \in Cookies, net \in NetOutcomes :
        \E answer \in AuthorityAnswers(cookie) :
            Deliver(delegatingVerifyAuth(cookie, net, answer, jwtSecret, now))

DelegatingRequireAuthCall ==
    \E cookie \in Cookies, net \in NetOutcomes :
        \E answer \in AuthorityAnswers(cookie) :
            Deliver(delegatingRequireAuth(cookie, net, answer, jwtSecret, now))

SplitNext ==
    \/ DayPasses
    \/ Receive
    \/ NextLogin
    \/ BackendLogin
    \/ NextLogout
    \/ BackendLogout
    \/ BackendStatusRequest
    \/ VerifyAuthCall
    \/ LoginProxyRequest
    \/ LogoutProxyRequest
    \/ StatusProxyRequest
    \/ PokemonProxyRequest
    \/ DelegatingVerifyAuthCall
    \/ DelegatingRequireAuthCall

SplitSpec == SplitInit /\ [][SplitNext]_vars

\* ------------------------------------------------------------------ claims
\* the requests that went through a gate in front of the catalog handlers
CatalogRequest ==
    \/ resp.gate = "apiMiddleware" /\ StartsWithApiPokemon(resp.path)
    \/ resp.gate = "backendPokemon"

\* the requests that went through protect
ProtectGates == {"protect", "backendPokemon", "backendStatus"}

\* the requests that went through a gate of a protected API path
ApiGateRequest ==
    \/ resp.gate = "apiMiddleware" /\ StartsWithApiPokemon(resp.path)
    \/ resp.gate \in ProtectGates

\* the cookie is a token that is malformed, carries a signature that is not
\* the MAC of its claims under key, or is past its exp
FailsVerification(cookie, key, at) ==
    /\ cookie # NoCookie
    /\ \/ cookie.kind # "jwt"
       \/ cookie.sigKey # key
       \/ cookie.sigUser # cookie.username
       \/ cookie.sigExp # cookie.exp
       \/ at >= cookie.exp

\* the key the gate of the last request verifies with
RespKey ==
    IF resp.gate \in ProtectGates \cup {"pageMiddleware"}
    THEN jwtSecret ELSE SecretOrDefault(jwtSecret)

\* C1: the catalog handler runs only for a request whose auth_token cookie is
\* a token signed with the configured JWT_SECRET and not expired; a missing,
\* forged or expired credential never reaches the handler.
C1_CatalogOnlyWithConfiguredSecret ==
    (CatalogRequest /\ (resp.handlerRan \/ resp.serviceCalled)) =>
        /\ resp.cookie.kind = "jwt"
        /\ SignatureMatches(resp.cookie, jwtSecret)
        /\ now < resp.cookie.exp
        /\ resp.cookie \notin Forged

\* C2 as stated: every API gate, requireApiAuth among them, answers a cookie
\* that is present but fails verification with 403 'Forbidden: Invalid or
\* expired token' and does not invoke the handler.
C2_Every_Gate_403 ==
    ((ApiGateRequest \/ resp.gate = "requireApiAuth")
        /\ FailsVerification(resp.cookie, RespKey, now)) =>
        /\ resp.status = 403
        /\ resp.body = "Forbidden: Invalid or expired token"
        /\ ~resp.passed
        /\ ~resp.handlerRan

\* C2 amended: protect and the API middleware answer a cookie that is present
\* but fails verification with 403 'Forbidden: Invalid or expired token';
\* requireApiAuth answers it with 401 'Unauthorized: No valid token provided';
\* none of them invokes the protected handler.
C2_InvalidToken_403_Or_401 ==
    /\ (ApiGateRequest /\ FailsVerification(resp.cookie, RespKey, now)) =>
            /\ resp.status = 403
            /\ resp.body = "Forbidden: Invalid or expired token"
            /\ ~resp.passed
            /\ ~resp.handlerRan
    /\ (resp.gate = "requireApiAuth"
            /\ FailsVerification(resp.cookie, RespKey, now)) =>
            /\ resp.status = 401
            /\ resp.body = "Unauthorized: No valid token provided"
            /\ ~resp.passed
            /\ ~resp.handlerRan

C2_Witness ==
    /\ resp.gate = "backendPokemon"
    /\ resp.cookie.kind = "jwt"
    /\ resp.cookie.sigKey = WrongSecret
    /\ jwtSecret = ConfiguredSecret
    /\ resp.status = 403

\* C3: a request without an auth_token cookie for a protected API path is
\* answered 401 'Unauthorized: No token provided' by protect and by the API
\* middleware, without a call of the token codec and without the handler.
C3_NoCookie_401_NoCodec ==
    (ApiGateRequest /\ resp.cookie = NoCookie) =>
        /\ resp.status = 401
        /\ resp.body = "Unauthorized: No token provided"
        /\ resp.codecCalls = 0
        /\ ~resp.passed
        /\ ~resp.handlerRan

C3_Witness ==
    /\ resp.gate = "apiMiddleware"
    /\ resp.path = PathPokemonDetail
    /\ resp.cookie = NoCookie
    /\ resp.status = 401

\* the requests whose answer is a verdict on the auth_token cookie
VerificationRequest ==
    \/ ApiGateRequest
    \/ resp.gate \in {"verifyAuth", "verifyAuthFromRequest", "requireAuth",
                      "requireApiAuth"}
    \/ resp.gate = "pageMiddleware" /\ resp.path = PathRoot

LoginRequest == resp.gate \in {"nextLogin", "backendLogin"}

\* every verifier and gate accepts t now, and those that yield an identity
\* yield admin
AcceptedEverywhereAsAdmin(t) ==
    /\ verifyAuth(t, jwtSecret, now).user = "admin"
    /\ verifyAuthFromRequest(t, jwtSecret, now).passed
    /\ requireAuth(t, jwtSecret, now).user = "admin"
    /\ requireAuth(t, jwtSecret, now).redirect = NoRedirect
    /\ requireApiAuth(t, jwtSecret, now).passed
    /\ apiMiddleware(PathPokemonList, t, jwtSecret, now).passed
    /\ pageMiddleware(PathRoot, t, jwtSecret, now).passed
    /\ protect(t, jwtSecret, now).passed
    /\ protect(t, jwtSecret, now).user = "admin"

C5_ExpiryBoundary ==
    /\ \A i \in issued :
        /\ jwtVerify(i.tok, i.tok.sigKey, i.at + (24 * 60 * 60) - 1) = "ok"
        /\ jwtVerify(i.tok, i.tok.sigKey, i.at + (24 * 60 * 60) + 1) = "expired"
    /\ \A i \in issued :
        (VerificationRequest /\ resp.cookie = i.tok /\ RespKey = i.tok.sigKey) =>
            /\ (now = i.at + (24 * 60 * 60) - 1) =>
                    (resp.passed /\ resp.outcome = "ok")
            /\ (now = i.at + (24 * 60 * 60) + 1) =>
                    (~resp.passed /\ resp.outcome = "expired")

C5_Witness ==
    /\ resp.gate = "protect"
    /\ jar = NoCookie
    /\ \E i \in issued :
        /\ resp.cookie = i.tok
        /\ now = i.at + (24 * 60 * 60) + 1
    /\ resp.outcome = "expired"
    /\ resp.status = 403

\* C6: a token whose claims were changed after signing is refused, and no
\* verifier accepts a token whose signature is not the MAC of its claims
\* under the configured JWT_SECRET.
C6_OnlyConfiguredSecretAccepted ==
    VerificationRequest =>
        /\ resp.cookie \in Tampered => ~resp.passed
        /\ resp.passed => SignatureMatches(resp.cookie, jwtSecret)

\* C7: for one cookie, secret configuration and time, the page middleware,
\* verifyAuth, verifyAuthFromRequest and protect give the same verdict.
C7_VerifiersAgree ==
    (VerificationRequest
        /\ resp.gate \in {"pageMiddleware", "verifyAuth",
                          "verifyAuthFromRequest", "protect"}) =>
        /\ pageMiddleware(PathRoot, resp.cookie, jwtSecret, now).passed = resp.passed
        /\ verifyAuth(resp.cookie, jwtSecret, now).passed = resp.passed
        /\ verifyAuthFromRequest(resp.cookie, jwtSecret, now).passed = resp.passed
        /\ protect(resp.cookie, jwtSecret, now).passed = resp.passed

\* C8: without JWT_SECRET no verifier accepts any token.
C8_FailClosedWithoutSecret ==
    (VerificationRequest /\ jwtSecret = Unset) => ~resp.passed

\* the answer of gate g to a request for path with this cookie, now
GateAnswer(g, path, cookie) ==
    CASE g = "verifyAuth" -> verifyAuth(cookie, jwtSecret, now)
      [] g = "verifyAuthFromRequest" -> verifyAuthFromRequest(cookie, jwtSecret, now)
      [] g = "requireAuth" -> requireAuth(cookie, jwtSecret, now)
      [] g = "requireApiAuth" -> requireApiAuth(cookie, jwtSecret, now)
      [] g = "apiMiddleware" -> apiMiddleware(path, cookie, jwtSecret, now)
      [] g = "pageMiddleware" -> pageMiddleware(path, cookie, jwtSecret, now)
      [] OTHER -> protect(cookie, jwtSecret, now)

\* the cookie is a token and the gate refuses it
Refuses(g, path, cookie) ==
    cookie # NoCookie /\ ~GateAnswer(g, path, cookie).passed

\* C9: whatever makes a presented token fail (expired, tampered, malformed,
\* wrong secret), a gate's status, body and redirect target are the same: the
\* answer to a refused token equals the gate's answer to every other token
\* it refuses.
C9_FailureCollapse ==
    (VerificationRequest /\ resp.cookie # NoCookie /\ ~resp.passed) =>
        \A c \in Cookies :
            Refuses(resp.gate, resp.path, c) =>
                External(GateAnswer(resp.gate, resp.path, c)) = External(resp)

C9_Witness ==
    /\ resp.gate = "pageMiddleware"
    /\ resp.path = PathRoot
    /\ resp.cookie \in IssuedTokens
    /\ resp.outcome = "expired"
    /\ \E c \in Cookies :
        pageMiddleware(PathRoot, c, jwtSecret, now).outcome = "invalid"

\* C10: a login with any username/password pair other than admin/admin is
\* answered 401 'Invalid credentials' without a cookie, by both issuers, and
\* the answer to a wrong username equals the answer to a wrong password.
C10_WrongCredentials_401 ==
    /\ (LoginRequest
            /\ resp.creds \in (Submitted \X Submitted) \ {<<"admin", "admin">>}) =>
            /\ resp.status = 401
            /\ resp.body = "Invalid credentials"
            /\ resp.setCookie = NoSetCookie
    /\ External(nextLogin(TRUE, "wrong", "admin", jwtSecret, now, nodeEnv))
            = External(nextLogin(TRUE, "admin", "wrong", jwtSecret, now, nodeEnv))
    /\ External(backendLogin("wrong", "admin", jwtSecret, now, nodeEnv))
            = External(backendLogin("admin", "wrong", jwtSecret, now, nodeEnv))

C10_Witness ==
    /\ resp.gate = "backendLogin"
    /\ resp.creds = <<"admin", "wrong">>
    /\ resp.status = 401

\* a login that was answered 200
SuccessfulLogin == LoginRequest /\ resp.status = 200

\* C11 as stated: every issuer sets auth_token on a successful login with
\* httpOnly, secure exactly in production, sameSite strict in production and
\* lax otherwise, a lifetime of 24 hours and path '/'.
C11_CookieAttributes_EveryIssuer ==
    SuccessfulLogin =>
        /\ resp.setCookie.op = "set"
        /\ resp.setCookie.options.httpOnly
        /\ resp.setCookie.options.secure = (nodeEnv = "production")
        /\ resp.setCookie.options.sameSite =
                (IF nodeEnv = "production" THEN "strict" ELSE "lax")
        /\ resp.setCookie.options.maxAge = 24 * 60 * 60
        /\ resp.setCookie.options.path = "/"

\* C11 amended: every issuer sets auth_token on a successful login with
\* httpOnly, secure exactly in production, a lifetime of 24 hours and path
\* '/'; the Next.js issuer sets sameSite strict in production and lax
\* otherwise, the backend issuer sets sameSite strict in every environment.
C11_CookieAttributes_PerIssuer ==
    SuccessfulLogin =>
        /\ resp.setCookie.op = "set"
        /\ resp.setCookie.options.httpOnly
        /\ resp.setCookie.options.secure = (nodeEnv = "production")
        /\ resp.setCookie.options.sameSite =
                (IF resp.gate = "backendLogin" \/ nodeEnv = "production"
                 THEN "strict" ELSE "lax")
        /\ resp.setCookie.options.maxAge = 24 * 60 * 60
        /\ resp.setCookie.options.path = "/"

C11_Witness ==
    /\ resp.gate = "backendLogin"
    /\ resp.status = 200
    /\ nodeEnv = "development"
    /\ resp.setCookie.op = "set"
    /\ resp.setCookie.options.sameSite = "strict"

\* the requests a logout handler answered: the two routes, and the proxy
\* route when it relayed the backend's answer
LogoutRequest ==
    \/ resp.gate \in {"nextLogout", "backendLogout"}
    \/ resp.gate = "logoutProxy" /\ resp.upstream # NoAnswer

\* the directive makes the client drop auth_token at once: an empty value
\* with Max-Age 0 or an Expires in the past, for the path of the cookie
ExpiresAuthToken(sc) ==
    /\ sc.op = "clear"
    /\ sc.value = NoCookie
    /\ sc.options.maxAge = 0 \/ sc.options.expires = "epoch"
    /\ sc.options.path = "/"

\* C12: a logout is answered 200 'Logout successful' with a Set-Cookie that
\* expires auth_token at once, whatever cookie the request carried (a valid
\* one, an invalid one, none).
C12_LogoutAlwaysClears ==
    LogoutRequest =>
        /\ resp.status = 200
        /\ resp.body = "Logout successful"
        /\ ExpiresAuthToken(resp.setCookie)

C12_Witness ==
    /\ resp.gate = "backendLogout"
    /\ resp.cookie = Garbage
    /\ jar \in IssuedTokens
    /\ resp.status = 200

\* the requests the status endpoint answered itself: the backend route, and
\* the proxy route when it relayed the backend's answer
StatusRequest ==
    \/ resp.gate = "backendStatus"
    \/ resp.gate = "statusProxy" /\ resp.upstream # NoAnswer /\ resp.upstream.json

\* C13: the status endpoint answers every request 200: {success: true} and
\* the identity for a valid cookie, {success: false} for a missing, invalid
\* or expired one; never 401 or 403.
C13_StatusAlways200 ==
    StatusRequest =>
        /\ resp.status = 200
        /\ IF jwtVerify(resp.cookie, jwtSecret, now) = "ok"
           THEN resp.body = "success: true" /\ resp.user = resp.cookie.username
           ELSE resp.body = "success: false" /\ resp.user = NoUser

\* the calls of the session verifier, direct and delegating
VerifierCall ==
    resp.gate \in {"verifyAuth", "delegatingVerifyAuth", "delegatingRequireAuth"}

\* C14: without an auth_token cookie the session verifier yields no identity,
\* the direct one without a call of the token codec, the delegating one
\* without a fetch of the backend authority.
C14_NoCookie_NoCodec_NoFetch ==
    (VerifierCall /\ resp.cookie = NoCookie) =>
        /\ ~resp.passed
        /\ resp.user = NoUser
        /\ resp.codecCalls = 0
        /\ resp.fetchCalls = 0
        /\ ~resp.threw

C14_Witness ==
    /\ resp.gate = "verifyAuth"
    /\ resp.cookie = NoCookie
    /\ jar \in IssuedTokens
    /\ ~resp.passed

GateRequest ==
    resp.gate \in {"requireAuth", "detailPage", "requireApiAuth",
                   "apiMiddleware", "pageMiddleware"} \cup ProtectGates

\* the three ways a gate ends
EndsInPassThrough == resp.passed /\ resp.redirect = NoRedirect
EndsInLoginRedirect ==
    /\ ~resp.passed
    /\ resp.redirect \in {"/login", "/login?from=/"}
    /\ resp.status = 0
EndsInJsonError ==
    /\ ~resp.passed
    /\ resp.redirect = NoRedirect
    /\ resp.status \in {401, 403}
    /\ resp.body # NoBody

DelegatingCall ==
    resp.gate \in {"delegatingVerifyAuth", "delegatingRequireAuth"}

\* the outbound call was made and nothing came back
AuthorityCallFailed == resp.fetchCalls >= 1 /\ resp.upstream = NoAnswer

\* C17: when the call of the backend authority fails, the delegating verifier
\* yields no identity and does not throw, has made exactly one outbound call,
\* and has not verified the token itself.
C17_DelegatingFailsClosed ==
    (DelegatingCall /\ AuthorityCallFailed) =>
        /\ ~resp.passed
        /\ resp.user = NoUser
        /\ ~resp.threw
        /\ resp.fetchCalls = 1
        /\ resp.codecCalls = 0

C17_Witness ==
    /\ resp.gate = "delegatingVerifyAuth"
    /\ resp.cookie \in IssuedTokens
    /\ jwtVerify(resp.cookie, jwtSecret, now) = "ok"
    /\ AuthorityCallFailed
    /\ ~resp.passed

\* C18: the delegating verifier yields the identity exactly when the
\* authority's status response is 200 with success true and an identity, so
\* not for a 401 or 403 and not for success false; the cookie goes to the
\* authority as it came; and with the backend's /api/status as the authority
\* the verdict is that of protect.
C18_DelegatingFollowsAuthority ==
    (DelegatingCall /\ resp.fetchCalls >= 1) =>
        /\ resp.forwarded = resp.cookie
        /\ (resp.upstream # NoAnswer) =>
            /\ resp.passed <=>
                    /\ resp.upstream.status = 200
                    /\ resp.upstream.body = "success: true"
                    /\ resp.upstream.user # NoUser
            /\ resp.passed => resp.user = resp.upstream.user
            /\ (resp.upstream.status \in {401, 403}) => ~resp.passed
            /\ (resp.upstream.body = "success: false") => ~resp.passed
            /\ (resp.upstream # SuccessFalseAnswer) =>
                    /\ resp.passed = protect(resp.cookie, jwtSecret, now).passed
                    /\ resp.passed => resp.user = resp.cookie.username

C18_Witness ==
    /\ resp.gate = "delegatingVerifyAuth"
    /\ resp.passed
    /\ resp.user = "admin"
    /\ resp.upstream.status = 200
    /\ resp.forwarded \in IssuedTokens

\* the proxy routes the claims name, and all of them
AuthProxies == {"loginProxy", "logoutProxy", "statusProxy"}
Proxies == AuthProxies \cup {"pokemonProxy"}

\* the positions of the Set-Cookie headers among the headers
SetCookiePositions(headers) ==
    {i \in 1..Len(headers) : headers[i].key = "set-cookie"}

\* C19: a response of the backend authority that the login, logout or status
\* proxy relays has on the proxy's response exactly its own Set-Cookie
\* headers: all of them, in order, none added, each unchanged.
C19_EverySetCookieRelayed ==
    (resp.gate \in AuthProxies /\ resp.upstream # NoAnswer /\ resp.upstream.json) =>
        LET up == resp.upstream.headers
            at == SetCookiePositions(up) IN
        /\ Len(resp.setCookies) = Cardinality(at)
        /\ \A i \in at :
                resp.setCookies[Cardinality({j \in at : j <= i})] = up[i].value

C19_Witness ==
    /\ resp.gate = "loginProxy"
    /\ resp.status = 200
    /\ Len(resp.setCookies) = 2
    /\ resp.setCookies[1].name = "auth_token"
    /\ resp.setCookies[2] = RouteCookie

\* C20: when a proxy's call of the backend authority fails, the proxy
\* answers 500 {error: 'Internal server error'} without a Set-Cookie header
\* and has made exactly one outbound call.
C20_ProxyFailure_500_NoRetry ==
    (resp.gate \in Proxies /\ AuthorityCallFailed) =>
        /\ resp.status = 500
        /\ resp.body = "Internal server error"
        /\ resp.setCookies = <<>>
        /\ resp.setCookie = NoSetCookie
        /\ resp.fetchCalls = 1

C20_Witness ==
    /\ resp.gate = "logoutProxy"
    /\ resp.cookie \in IssuedTokens
    /\ AuthorityCallFailed
    /\ resp.status = 500

\* ------------------------------------------------------------ the edge gate
\* the requests that went through an edge middleware
EdgeGates == {"apiMiddleware", "pageMiddleware"}

\* the path is one the middleware of the last request verifies
UnderProtectedPrefix ==
    \/ resp.gate = "apiMiddleware" /\ StartsWithApiPokemon(resp.path)
    \/ resp.gate = "pageMiddleware" /\ resp.path = PathRoot

\* the middleware passed the request on as it came, without a verification
PassedThroughUnchanged ==
    resp = [Response(resp.gate, resp.path, resp.cookie) EXCEPT !.passed = TRUE]

\* C21 as stated: an edge gate verifies only the requests under its
\* protected prefix, and a request it stops there gets the status (401 or
\* 403) and the body protect gives for the same cookie; a request for any
\* other path passes through unchanged whatever its cookie.
C21_EveryEdgeGate_401_403 ==
    resp.gate \in EdgeGates =>
        IF ~UnderProtectedPrefix THEN PassedThroughUnchanged
        ELSE ~resp.passed =>
                LET p == protect(resp.cookie, jwtSecret, now) IN
                /\ resp.status \in {401, 403}
                /\ resp.status = p.status
                /\ resp.body = p.body

\* C21, amended: an edge gate verifies only the requests under its protected
\* prefix.  There the API middleware (/api/pokemon...) stops a request with
\* the status and body protect gives for the same cookie, before the route
\* handler runs, and the page middleware ('/') stops it with a redirect to
\* /login; a request for any other path (/login, /api/auth/status among them)
\* passes through unchanged, without a verification, whatever its cookie.
C21_EdgeGate_PerVariant ==
    resp.gate \in EdgeGates =>
        IF ~UnderProtectedPrefix THEN PassedThroughUnchanged
        ELSE IF resp.passed THEN resp.codecCalls = 1
        ELSE IF resp.gate = "apiMiddleware"
        THEN LET p == protect(resp.cookie, jwtSecret, now) IN
             /\ resp.status \in {401, 403}
             /\ resp.status = p.status
             /\ resp.body = p.body
             /\ ~resp.handlerRan
        ELSE /\ resp.status = 0
             /\ resp.redirect \in {"/login?from=/", "/login"}

\* a request for /api/auth/status with a cookie that is no token went
\* through the API middleware
C21_Witness ==
    /\ resp.gate = "apiMiddleware"
    /\ resp.path = PathAuthStatus
    /\ resp.cookie = Garbage
    /\ resp.passed

\* ------------------------------------------------- statelessness of verdicts
\* the gates whose answer carries the identity of the token
IdentityGates == {"verifyAuth", "requireAuth"} \cup ProtectGates

\* the cookie of the last request is a token signed with the key its gate
\* verifies with, with its claims as signed, and before its exp
UnexpiredUntampered ==
    /\ resp.cookie.kind = "jwt"
    /\ RespKey # Unset
    /\ SignatureMatches(resp.cookie, RespKey)
    /\ now < resp.cookie.exp

LoggedOutSinceIssue == jar = NoCookie /\ issued # {}

\* C28: a token issued before a logout and presented after it is accepted,
\* with its identity, by every verifier that verifies with the key it was
\* signed with, exactly as long as the clock is before the token's exp, 24
\* hours after its issue; the logout has revoked nothing.
C28_ReplayAfterLogoutAccepted ==
    \A i \in issued :
        (/\ VerificationRequest
         /\ LoggedOutSinceIssue
         /\ resp.cookie = i.tok
         /\ RespKey = i.tok.sigKey) =>
            /\ resp.passed <=> now < i.at + Lifetime
            /\ (resp.passed /\ resp.gate \in IdentityGates) => resp.user = "admin"

\* the token of a login is replayed to protect after the logout, later
C28_Witness ==
    /\ resp.gate = "protect"
    /\ LoggedOutSinceIssue
    /\ resp.cookie \in IssuedTokens
    /\ ticks > 0
    /\ resp.passed

\* --------------------------------------------------- who writes the cookie
\* the response of the last request carries an auth_token directive
WritesAuthToken == resp.setCookie # NoSetCookie

\* a response sets auth_token only when it is the 200 of a login and clears
\* it only when it is the answer of a logout
OnlyLoginAndLogoutWrite ==
    /\ resp.setCookie.op = "set" => SuccessfulLogin
    /\ resp.setCookie.op = "clear" => LogoutRequest
    /\ (resp # NoRequest /\ ~SuccessfulLogin /\ ~LogoutRequest) => ~WritesAuthToken

\* C29: only a successful login and a logout change the session cookie.
\* The response of a failed login, of a status request, of a catalog
\* request, of a page navigation, of a verifier call and of every refused
\* request (401, 403, redirect) carries no auth_token directive, and in
\* every step in which the client's auth_token cookie changes the client is
\* taking the response of a successful login or of a logout.
C29_OnlyLoginAndLogoutChangeCookie ==
    /\ []OnlyLoginAndLogoutWrite
    /\ [][jar' # jar => (SuccessfulLogin \/ LogoutRequest)]_vars

\* a login with wrong credentials was refused while the client held a token
C29_Witness ==
    /\ LoginRequest
    /\ resp.status = 401
    /\ jar \in IssuedTokens
    /\ ~WritesAuthToken

\* ------------------------------------------------------------ one identity
\* the key the gate of the last request verifies with is one no client has:
\* JWT_SECRET is set, to a value that is not among the keys clients know
\* (the default 'your-secret-key' is in the source)
SecretNotKnownToClients == RespKey # Unset /\ RespKey \notin ClientKeys

\* C30: every token a login has minted names admin; and while the key a
\* verifier checks with is not known to clients, every identity it yields
\* (the user verifyAuth and requireAuth return, req.user set by protect, the
\* user of the status answer) is admin.
C30_SingleIdentity ==
    /\ \A i \in issued : i.tok.username = "admin"
    /\ (resp.user # NoUser /\ SecretNotKnownToClients) => resp.user = "admin"

\* the status endpoint answered with an identity while clients could also
\* present tokens naming mallory
C30_Witness ==
    /\ resp.gate = "backendStatus"
    /\ SecretNotKnownToClients
    /\ resp.user = "admin"
    /\ \E t \in Cookies : t.username = "mallory"

\* ================================================= the search input debounce
\* SearchAndControls: the input, its clear button and the debounce timer.
\* Time is in milliseconds.  A timeout runs at its due time: time does not
\* pass a due timer, and a timer that is due runs before a later event is
\* handled.

\* the delay of setTimeout(.., 300)
DebounceMs == 300

\* how many keystrokes a run has, and how far the clock runs when idle
MaxKeys == 2
MaxClock == 600

\* what the input can read after a keystroke
Inputs == {"", "p", "pi"}

\* the amounts of time that pass between events
ElapseSteps == {50, 250}

\* setTimeout(() => onSearchChange(value), 300) as it waits
Timer(id, due, value) == [id |-> id, due |-> due, value |-> value]

\* a call onSearchChange(value): made by a timer (id: the timer's) or by
\* handleClear (id: the id the next timer gets), at the time at
Call(value, via, id, at) == [value |-> value, via |-> via, id |-> id, at |-> at]

\* clearTimeout(id): a no-op for a timer that ran
clearTimeout(id) == {t \in timers : t.id # id}

\* if (debounceTimerRef.current) clearTimeout(debounceTimerRef.current)
clearDebounceTimer ==
    IF debounceTimerRef # NullRef THEN clearTimeout(debounceTimerRef) ELSE timers

\* (variant: the existing timer is not cleared)
handleSearchChange_withoutClearTimeout(value) ==
    /\ searchValue' = value
    /\ timers' = timers \cup {Timer(nextTimerId, clock + DebounceMs, value)}
    /\ debounceTimerRef' = nextTimerId
    /\ nextTimerId' = nextTimerId + 1
    /\ UNCHANGED <<clock, calls, mounted>>

\* handleSearchChange(value)
handleSearchChange(value) ==
    /\ searchValue' = value
    /\ timers' = clearDebounceTimer
                    \cup {Timer(nextTimerId, clock + DebounceMs, value)}
    /\ debounceTimerRef' = nextTimerId
    /\ nextTimerId' = nextTimerId + 1
    /\ UNCHANGED <<clock, calls, mounted>>

\* (variant: the pending timer is left to run)
handleClear_withoutClearTimeout ==
    /\ searchValue' = ""
    /\ debounceTimerRef' = NullRef
    /\ calls' = Append(calls, Call("", "clear", nextTimerId, clock))
    /\ UNCHANGED <<clock, timers, nextTimerId, mounted>>

\* handleClear()
handleClear ==
    /\ searchValue' = ""
    /\ timers' = clearDebounceTimer
    /\ debounceTimerRef' = NullRef
    /\ calls' = Append(calls, Call("", "clear", nextTimerId, clock))
    /\ UNCHANGED <<clock, nextTimerId, mounted>>

\* the cleanup of the effect with no dependencies: it runs at unmount
unmountCleanup ==
    /\ mounted' = FALSE
    /\ timers' = clearDebounceTimer
    /\ UNCHANGED <<clock, searchValue, debounceTimerRef, calls, nextTimerId>>

NoTimerDue == \A t \in timers : clock < t.due

DebounceInit ==
    /\ now = 0
    /\ ticks = 0
    /\ jwtSecret = ConfiguredSecret
    /\ nodeEnv = "production"
    /\ issued = {}
    /\ jar = NoCookie
    /\ resp = NoRequest
    /\ ClientIdle
    /\ SearchIdle

\* onChange of the input: the text changed to e.target.value
Keystroke ==
    /\ mounted /\ NoTimerDue
    /\ nextTimerId <= MaxKeys
    /\ \E value \in Inputs \ {searchValue} : handleSearchChange(value)
    /\ UNCHANGED <<serverVars, clientVars>>

\* onClick of the clear button, which is rendered while the input has text
ClickClear ==
    /\ mounted /\ NoTimerDue
    /\ searchValue # ""
    /\ handleClear
    /\ UNCHANGED <<serverVars, clientVars>>

\* the page that holds the component goes away
Unmount ==
    /\ mounted /\ NoTimerDue
    /\ unmountCleanup
    /\ UNCHANGED <<serverVars, clientVars>>

\* time passes, up to the next due time
Elapse ==
    \E d \in ElapseSteps :
        /\ \A t \in timers : clock + d <= t.due
        /\ clock + d <= MaxClock \/ timers # {}
        /\ clock' = clock + d
        /\ UNCHANGED <<searchValue, debounceTimerRef, timers, calls,
                       nextTimerId, mounted>>
        /\ UNCHANGED <<serverVars, clientVars>>

\* a timeout runs its callback: onSearchChange(value)
TimerFires ==
    \E t \in timers :
        /\ t.due <= clock
        /\ timers' = timers \ {t}
        /\ calls' = Append(calls, Call(t.value, "timer", t.id, clock))
        /\ UNCHANGED <<clock, searchValue, debounceTimerRef, nextTimerId, mounted>>
        /\ UNCHANGED <<serverVars, clientVars>>

DebounceNext ==
    \/ Keystroke
    \/ ClickClear
    \/ Unmount
    \/ Elapse
    \/ TimerFires

\* the event loop runs a due timer, and time passes
DebounceSpec ==
    /\ DebounceInit
    /\ [][DebounceNext]_vars
    /\ WF_vars(TimerFires)
    /\ WF_vars(Elapse)

\* the calls made by timers
TimerCalls == {i \in 1..Len(calls) : calls[i].via = "timer"}

\* the time of the most recent keystroke, while its timer waits
PendingSince(t) == t.due - DebounceMs

\* while a timer waits, less than 300 ms (or just 300 ms) have passed since
\* the most recent keystroke, the timer is that keystroke's, and no call was
\* made for it; once the most recent keystroke's timer is gone without a
\* clear, exactly one call was made for it, with the text of the input
DebounceState ==
    /\ \A t \in timers :
          /\ t.id = debounceTimerRef
          /\ t.value = searchValue
          /\ clock <= t.due
          /\ \A i \in TimerCalls : calls[i].id # t.id
    /\ (mounted /\ debounceTimerRef # NullRef /\ timers = {}) =>
          /\ Cardinality({i \in TimerCalls : calls[i].id = debounceTimerRef}) = 1
          /\ \A i \in TimerCalls :
                calls[i].id = debounceTimerRef => calls[i].value = searchValue
    /\ \A i \in TimerCalls : \A j \in TimerCalls : calls[i].id = calls[j].id => i = j

\* a step in which a timer calls onSearchChange
TimerCallStep ==
    /\ Len(calls') = Len(calls) + 1
    /\ calls'[Len(calls')].via = "timer"

\* C25: onSearchChange is not called by the debounce while less than 300 ms
\* have passed since the most recent keystroke; when 300 ms have passed
\* without a further keystroke it is called, exactly once, with the latest
\* text of the input; every keystroke restarts the wait, so the timer of an
\* earlier keystroke never calls.
C25_SearchDebounce ==
    /\ []DebounceState
    /\ [][TimerCallStep =>
            \E t \in timers :
                /\ t.id = debounceTimerRef
                /\ clock >= PendingSince(t) + DebounceMs
                /\ calls' = Append(calls, Call(searchValue, "timer", t.id, clock))]_vars
    /\ (timers # {}) ~> (timers = {})

\* two keystrokes 250 ms apart, then one call, for the second, 550 ms in
C25_Witness ==
    /\ Len(calls) = 1
    /\ calls[1] = Call("pi", "timer", 2, 550)
    /\ searchValue = "pi"

\* a step of handleClear: the input had text and the ref was set to null
ClearStep == searchValue # "" /\ searchValue' = "" /\ debounceTimerRef' = NullRef

\* C26: handleClear calls onSearchChange once, at once, with '' and leaves
\* no timer waiting, so no timer set before a clear calls after it; the
\* unmount leaves no timer waiting either, and nothing is called after it.
C26_ClearAndUnmountCancel ==
    /\ [][ClearStep =>
            /\ calls' = Append(calls, Call("", "clear", nextTimerId, clock))
            /\ timers' = {}]_vars
    /\ [](\A i \in 1..Len(calls) : \A j \in TimerCalls :
            (calls[i].via = "clear" /\ i < j) => calls[j].id >= calls[i].id)
    /\ [](~mounted => timers = {})
    /\ [][~mounted' => calls' = calls]_vars

\* the input was cleared 100 ms after the only keystroke, while its timer
\* waited, and 300 ms after the keystroke nothing else has been called
C26_Witness ==
    /\ calls = <<Call("", "clear", 2, 100)>>
    /\ nextTimerId = 2
    /\ clock >= DebounceMs
    /\ timers = {}

\* ============================================================== the browser
\* The client side of the session: the status query of useAuthStatus, the
\* route guard mounted in the root layout, the login page, the logout button
\* of the home page and the query cache, against the page middleware and the
\* status endpoint of the server.  The clock stands still and JWT_SECRET is
\* fixed during a run.

\* how many forms the user submits in a run
MaxUserActions == 2

\* the pages a user opens
Pages == {"/", "/login", "/pokemon/25"}

\* the query keys of the catalog data
CatalogKeys == {"pokemonList", "pokemon"}

\* the cookie the browser holds when the page is opened
StartCookies ==
    {NoCookie, Garbage,
     Sign("admin", Lifetime, ConfiguredSecret),
     Sign("admin", Lifetime, DefaultSecret),
     Sign("admin", 0, ConfiguredSecret)}

Event(name, removed) == [name |-> name, removed |-> removed]

\* useAuthStatus: isLoading, isReady, isAuthenticated
isLoading == userStatus.fetching /\ userStatus.data = "none"
isReady == ~isLoading /\ ~userStatus.error
isAuthenticated == userStatus.data = "true"

\* the page the server answers a navigation to target with: the page
\* middleware redirects '/' and requireAuth redirects the detail page
Landing(target, cookie) ==
    IF target = "/"
    THEN IF pageMiddleware(PathRoot, cookie, jwtSecret, now).passed
         THEN "/" ELSE "/login"
    ELSE IF target = "/pokemon/25"
    THEN IF PokemonDetailPage(cookie, jwtSecret, now).redirect = NoRedirect
         THEN target ELSE "/login"
    ELSE target

\* GET /api/auth/status as the client's cookie gets it answered
StatusAnswer(cookie, net) ==
    statusProxy(cookie, net,
                BackendAnswer(backendStatus(cookie, jwtSecret, now), <<>>))

\* the queryFn of useAuthStatus: response.data of a 2xx, {success: false}
\* for a 401 or 403, and an error for everything else
queryFn(a) ==
    IF a.status = 200
    THEN [userStatus EXCEPT !.data = "true", !.error = FALSE,
                            !.fetching = FALSE, !.invalidated = FALSE]
    ELSE IF a.status \in {401, 403}
    THEN [userStatus EXCEPT !.data = "false", !.error = FALSE,
                            !.fetching = FALSE, !.invalidated = FALSE]
    ELSE [userStatus EXCEPT !.error = TRUE, !.fetching = FALSE]

\* (variant: the effect does not wait for isReady)
RouteGuardRedirect_withoutReady(ready, auth, path) ==
    IF auth /\ path = "/login" THEN "/"
    ELSE IF ~auth /\ path = "/" THEN "/login"
    ELSE "none"

\* the effect of RouteGuard: the target of its router.replace, if any
RouteGuardRedirect(ready, auth, path) ==
    IF ~ready THEN "none"
    ELSE IF auth /\ path = "/login" THEN "/"
    ELSE IF ~auth /\ path = "/" THEN "/login"
    ELSE "none"

\* (variant: the logout invalidates the status query)
logoutOnSuccess_invalidates(status) ==
    [status EXCEPT !.invalidated = TRUE, !.fetching = TRUE]

\* onSuccess of useLogoutMutation: setQueryData(['userStatus'],
\* {success: false}); a fetch under way is not touched
logoutOnSuccess(status) ==
    [status EXCEPT !.data = "false", !.error = FALSE, !.invalidated = FALSE]

\* removeQueries({queryKey: ['pokemonList']}) and (['pokemon'])
removeQueries(cache) == (cache \ {"pokemonList"}) \ {"pokemon"}

\* onSuccess of useLoginMutation: invalidateQueries(['userStatus']); the
\* query has an observer (the route guard), so it is refetched at once, with
\* the cookie the browser holds now
loginOnSuccess(status, cookie) ==
    [status EXCEPT !.invalidated = TRUE, !.fetching = TRUE, !.sent = cookie]

\* the user opens a page: the server answers the navigation, the providers
\* mount with an empty cache and the status query starts
ClientInit ==
    /\ now = 0
    /\ ticks = 0
    /\ jwtSecret \in SecretConfigs
    /\ nodeEnv = "production"
    /\ issued = {}
    /\ jar \in StartCookies
    /\ resp = NoRequest
    /\ \E p \in Pages : pathname = Landing(p, jar)
    /\ userStatus = [NoQuery EXCEPT !.fetching = TRUE, !.sent = jar]
    /\ catalogCache = {}
    /\ guardSeen = NeverRan
    /\ nav = NoNav
    /\ lastEvent = Event("load", {})
    /\ userActions = 0
    /\ SearchIdle

\* the route guard's effect is due: it has not run since the mount, or
\* since isReady, isAuthenticated or pathname changed.  React runs the
\* effects of a render before it handles the next event, so nothing else
\* happens while it is due.
GuardPending ==
    \/ ~guardSeen.ran
    \/ guardSeen.ready # isReady
    \/ guardSeen.auth # isAuthenticated
    \/ guardSeen.path # pathname

\* the status request is answered
StatusFetchCompletes ==
    /\ ~GuardPending
    /\ userStatus.fetching
    /\ \E net \in NetOutcomes :
          userStatus' = queryFn(StatusAnswer(userStatus.sent, net))
    /\ lastEvent' = Event("statusFetched", {})
    /\ UNCHANGED <<pathname, catalogCache, guardSeen, nav, userActions>>
    /\ UNCHANGED <<serverVars, searchVars>>

\* the effect of RouteGuard runs
GuardEffect ==
    /\ GuardPending
    /\ LET to == RouteGuardRedirect(isReady, isAuthenticated, pathname) IN
       /\ guardSeen' = [ran |-> TRUE, ready |-> isReady,
                        auth |-> isAuthenticated, path |-> pathname,
                        redirect |-> to]
       /\ nav' = IF to = "none" THEN nav ELSE [target |-> to, by |-> "guard"]
    /\ lastEvent' = Event("guard", {})
    /\ UNCHANGED <<pathname, userStatus, catalogCache, userActions>>
    /\ UNCHANGED <<serverVars, searchVars>>

\* the navigation under way arrives: the server has answered it
NavigationCompletes ==
    /\ ~GuardPending
    /\ nav # NoNav
    /\ pathname' = Landing(nav.target, jar)
    /\ nav' = NoNav
    /\ lastEvent' = Event("navigated", {})
    /\ UNCHANGED <<userStatus, catalogCache, guardSeen, userActions>>
    /\ UNCHANGED <<serverVars, searchVars>>

\* the answers POST /api/auth/login can get: the Next.js issuer, or the
\* proxy in front of the backend issuer
LoginAnswers(u, p) ==
    {nextLogin(TRUE, u, p, jwtSecret, now, nodeEnv)}
        \cup {loginProxy(TRUE, u, p, jar, net,
                  BackendAnswer(backendLogin(u, p, jwtSecret, now, nodeEnv), <<>>))
              : net \in NetOutcomes}

\* handleSubmit of the login page: mutateAsync, then router.push('/'); a
\* rejected mutation shows the error and stays
SubmitLogin ==
    /\ ~GuardPending
    /\ pathname = "/login" /\ isReady
    /\ userActions < MaxUserActions
    /\ userActions' = userActions + 1
    /\ \E u \in Submitted, p \in Submitted : \E r \in LoginAnswers(u, p) :
          IF r.status = 200
          THEN /\ jar' = IF r.setCookie.op = "set" THEN r.setCookie.value ELSE jar
               /\ userStatus' = loginOnSuccess(userStatus, jar')
               /\ nav' = [target |-> "/", by |-> "loginPage"]
               /\ lastEvent' = Event("loginSuccess", {})
          ELSE /\ lastEvent' = Event("loginFailure", {})
               /\ UNCHANGED <<jar, userStatus, nav>>
    /\ UNCHANGED <<pathname, catalogCache, guardSeen>>
    /\ UNCHANGED <<now, ticks, jwtSecret, nodeEnv, issued, resp, searchVars>>

\* the answers POST /api/auth/logout can get
LogoutAnswers ==
    {nextLogout(jar, nodeEnv)}
        \cup {logoutProxy(jar, net,
                  BackendAnswer(backendLogout(jar, nodeEnv), <<>>))
              : net \in NetOutcomes}

\* handleLogout of the home page: mutateAsync, then router.push('/login'); a
\* rejected mutation is logged
ClickLogout ==
    /\ ~GuardPending
    /\ pathname = "/" /\ isReady
    /\ userActions < MaxUserActions
    /\ userActions' = userActions + 1
    /\ \E r \in LogoutAnswers :
          IF r.status = 200
          THEN /\ jar' = IF r.setCookie.op = "clear" THEN NoCookie ELSE jar
               /\ userStatus' = logoutOnSuccess(userStatus)
               /\ catalogCache' = removeQueries(catalogCache)
               /\ nav' = [target |-> "/login", by |-> "homePage"]
               /\ lastEvent' = Event("logoutSuccess", catalogCache)
          ELSE /\ lastEvent' = Event("logoutFailure", {})
               /\ UNCHANGED <<jar, userStatus, catalogCache, nav>>
    /\ UNCHANGED <<pathname, guardSeen>>
    /\ UNCHANGED <<now, ticks, jwtSecret, nodeEnv, issued, resp, searchVars>>

\* the home page fetches the list, a card prefetches a detail: the answer
\* of a request the API middleware let through is cached
CatalogLoads ==
    /\ ~GuardPending
    /\ pathname = "/" /\ isReady
    /\ \E key \in CatalogKeys :
          /\ key \notin catalogCache
          /\ apiMiddleware(IF key = "pokemonList" THEN PathPokemonList
                           ELSE PathPokemonDetail, jar, jwtSecret, now).passed
          /\ catalogCache' = catalogCache \cup {key}
    /\ lastEvent' = Event("catalogLoaded", {})
    /\ UNCHANGED <<pathname, userStatus, guardSeen, nav, userActions>>
    /\ UNCHANGED <<serverVars, searchVars>>

ClientNext ==
    \/ StatusFetchCompletes
    \/ GuardEffect
    \/ NavigationCompletes
    \/ SubmitLogin
    \/ ClickLogout
    \/ CatalogLoads

\* requests are answered, effects run and navigations arrive; the user
\* acts or does not
ClientSpec ==
    /\ ClientInit
    /\ [][ClientNext]_vars
    /\ WF_vars(StatusFetchCompletes)
    /\ WF_vars(GuardEffect)
    /\ WF_vars(NavigationCompletes)

\* C23: the last run of the route guard's effect redirected to '/' exactly
\* when the status was ready, the user authenticated and the page '/login';
\* to '/login' exactly when the status was ready, the user not authenticated
\* and the page '/'; and not at all on any other page or while the status
\* was loading or in error; a navigation the guard started goes to '/' or
\* to '/login'.
C23_RouteGuardRedirects ==
    /\ guardSeen.ran =>
          /\ guardSeen.redirect = "/" <=>
                (guardSeen.ready /\ guardSeen.auth /\ guardSeen.path = "/login")
          /\ guardSeen.redirect = "/login" <=>
                (guardSeen.ready /\ ~guardSeen.auth /\ guardSeen.path = "/")
          /\ guardSeen.redirect \in {"/", "/login", "none"}
          /\ guardSeen.path \notin {"/", "/login"} => guardSeen.redirect = "none"
    /\ nav.by = "guard" => nav.target \in {"/", "/login"}

\* an authenticated user on the login page is being sent to '/'
C23_Witness ==
    /\ guardSeen.ran
    /\ guardSeen.redirect = "/"
    /\ pathname = "/login"
    /\ isAuthenticated
    /\ nav = [target |-> "/", by |-> "guard"]

\* C24: the step of a successful logout leaves the cached auth status with
\* {success: false}, without starting a fetch, and leaves no catalog data
\* in the cache; the step of a successful login leaves the cached auth
\* status invalidated and its refetch under way, with the new cookie.
C24_MutationsUpdateCache ==
    /\ [][lastEvent'.name = "logoutSuccess" =>
            /\ userStatus'.data = "false"
            /\ ~userStatus'.error /\ ~userStatus'.invalidated
            /\ userStatus'.fetching = userStatus.fetching
            /\ userStatus'.sent = userStatus.sent
            /\ catalogCache' \cap CatalogKeys = {}]_vars
    /\ [][lastEvent'.name = "loginSuccess" =>
            /\ userStatus'.invalidated
            /\ userStatus'.fetching
            /\ userStatus'.sent = jar'
            /\ userStatus'.data = userStatus.data]_vars

\* a logout has just succeeded with the list and a detail in the cache,
\* for a user whose status said authenticated
C24_Witness ==
    /\ lastEvent = Event("logoutSuccess", CatalogKeys)
    /\ userStatus.data = "false"
    /\ ~userStatus.fetching
    /\ catalogCache = {}
    /\ jar = NoCookie

\* no navigation is under way, no effect is due and no status request is out
Stable == nav = NoNav /\ ~GuardPending /\ ~userStatus.fetching

\* from some point on nothing redirects any more
RedirectsTerminate == <>[]Stable

\* the user's last action was a login that succeeded
LastActionWasLogin ==
    lastEvent.name = "loginSuccess" /\ userActions = MaxUserActions

\* C27 as stated: for every cookie and every JWT_SECRET configuration the
\* navigation driven by the page middleware and the route guard comes to
\* rest, and after a successful login the client comes to rest on '/' (a
\* status request that fails on the network aside: the guard then shows its
\* loading screen for good).
C27_RedirectsTerminate_LoginSettlesOnRoot ==
    /\ RedirectsTerminate
    /\ LastActionWasLogin ~> ((pathname = "/" /\ Stable) \/ userStatus.error)

====
